---- MODULE Spec2Model ----
(***************************************************************************)
(* samples/c_cxx/classy/pics.py: an image file is decoded, resized to      *)
(* 224x224, turned into a float32 array, transposed to channel-first,      *)
(* given a batch axis, cut to its first three channels and printed as a    *)
(* C++ vector initializer.                                                 *)
(*                                                                         *)
(* Arrays are numpy arrays: a shape, element strides and an offset over a  *)
(* C-contiguous buffer.  The buffer of np.array(img) holds the samples of  *)
(* the image row by row (index [y][x][band]); the model reads a buffer    *)
(* cell by computing the sample of the image it was copied from, so the    *)
(* 224*224*bands cells are never enumerated in one state.                  *)
(*                                                                         *)
(* Standard output is summarised by the number of lines written, the first *)
(* line written and the lines written by the latest step.  One step of the *)
(* print loop is one iteration of "for c in b" (one row of 224 prints).    *)
(***************************************************************************)
EXTENDS Integers, Sequences, FiniteSets, TLC

(* ---------------------------------------------------------------- bounds *)
MaxPixels == 2       \* source images are W x H with W * H <= MaxPixels

(* ------------------------------------------------------------- constants *)
TargetSize == 224    \* img.resize((224, 224), ...)
SliceStop == 3       \* img_data[:,0:3,:,:]
MaxSample == 2 ^ 8 - 1  \* largest 8-bit sample of a decoded image

VARIABLES
    file,       \* what is stored at the path given to preprocess
    pc,         \* position of the script
    img,        \* local img of preprocess
    img_data,   \* local img_data of preprocess
    mushroom,   \* module-level result of preprocess
    ia, ib, ic, \* positions of the loops "for a", "for b", "for c"
    nLines,     \* number of lines written to standard output so far
    nValues,    \* number of those lines written by the print inside the loops
    firstLine,  \* the first line ever written ("" while nothing is written)
    lastLines,  \* the lines written by the latest step, in order
    lastVals    \* the scalars d iterated by the latest step, in order

vars == <<file, pc, img, img_data, mushroom, ia, ib, ic,
          nLines, nValues, firstLine, lastLines, lastVals>>

(* ------------------------------------------------------------ arithmetic *)
Min(a, b) == IF a <= b THEN a ELSE b
Max(a, b) == IF a >= b THEN a ELSE b
Abs(a) == IF a >= 0 THEN a ELSE -a

RECURSIVE SumTo(_, _)
\* f(0) + f(1) + ... + f(n-1) for a function f on 0..n-1
SumTo(f, n) == IF n = 0 THEN 0 ELSE f[n - 1] + SumTo(f, n - 1)

(* ----------------------------------------------------------- input files *)
Modes == {"L", "LA", "RGB", "RGBA"}

\* number of bands of a PIL mode
Bands(mode) ==
    CASE mode = "L" -> 1
      [] mode = "LA" -> 2
      [] mode = "RGB" -> 3
      [] mode = "RGBA" -> 4

\* sample of band c at pixel (x, y) of the stored picture: a test card on
\* which bands, columns and rows all differ (0 at band 0 of the first pixel,
\* 255 at band 3), so a step that mixes them up changes the output
Pattern(x, y, c) == (85 * c + 31 * x + 13 * y) % (MaxSample + 1)

\* what can be stored at the path: nothing, a file PIL cannot decode, or a
\* picture of one of the modes and at most MaxPixels pixels
Files ==
    {[kind |-> "missing", mode |-> "L", W |-> 1, H |-> 1],
     [kind |-> "unsupported", mode |-> "L", W |-> 1, H |-> 1]}
    \cup {f \in [kind : {"image"}, mode : Modes, W : 1..MaxPixels,
                  H : 1..MaxPixels] : f.W * f.H <= MaxPixels}

(* ------------------------------------------------------------ PIL images *)
NoImage == [mode |-> "none", size |-> <<0, 0>>, srcsize |-> <<0, 0>>]

\* Image.open: the decoded picture, size (width, height)
Decode(f) ==
    [mode |-> f.mode, size |-> <<f.W, f.H>>, srcsize |-> <<f.W, f.H>>]

\* a resize that keeps the aspect ratio of the picture (what Image.thumbnail
\* does): the height follows the width
ResizeKeepAspect(im, size) ==
    [im EXCEPT !.size = <<size[1], Max(1, (size[1] * im.size[2]) \div im.size[1])>>]

\* Image.resize(size, BILINEAR): a new image of the requested size over the
\* same source samples, stretched independently along each axis
Resize(im, size) == [im EXCEPT !.size = size]

\* weight (numerator) of source position s for output position o when a line
\* of n_in samples is resampled to n_out samples with the triangle filter
Weight(s, o, n_in, n_out) ==
    LET dist == Abs((2 * s + 1) * n_out - (2 * o + 1) * n_in)
    IN  Max(0, 2 * n_out * Max(n_in, n_out) - dist * n_out)

\* the coefficients of output position o: the weight k[s + 1] of every source
\* position s and their sum ww
Kernel(o, n_in, n_out) ==
    LET k == [s \in 1..n_in |-> Weight(s - 1, o, n_in, n_out)]
    IN  [k |-> k, ww |-> SumTo([s \in 0..(n_in - 1) |-> k[s + 1]], n_in)]

\* the kernels of the resize to TargetSize, computed once per input length
KernelTable ==
    LET T(f, n) == SubSeq(f, 1, n)
    IN  T([n_in \in 1..MaxPixels |->
            T([o \in 1..TargetSize |->
                LET c == Kernel(o - 1, n_in, TargetSize)
                IN  [k |-> T(c.k, n_in), ww |-> c.ww]], TargetSize)], MaxPixels)

RECURSIVE Dot(_, _, _)
\* k[1] * line[0] + ... + k[n] * line[n - 1]
Dot(k, line, n) == IF n = 0 THEN 0 ELSE k[n] * line[n - 1] + Dot(k, line, n - 1)

\* one resampling pass: weighted mean of line (a function on 0..n_in-1) at
\* output position o, rounded to the nearest 8-bit sample; a pass that does
\* not change the length is skipped
Resample(line, o, n_in, n_out) ==
    IF n_in = n_out THEN line[o]
    ELSE LET c == IF n_out = TargetSize /\ n_in <= MaxPixels
                  THEN KernelTable[n_in][o + 1]
                  ELSE Kernel(o, n_in, n_out)
         IN  (2 * Dot(c.k, line, n_in) + c.ww) \div (2 * c.ww)

\* sample of band c at pixel (x, y) of an image: horizontal pass, then
\* vertical pass
GetPixel(im, x, y, c) ==
    LET sw == im.srcsize[1]
        sh == im.srcsize[2]
        hpass == [sy \in 0..(sh - 1) |->
                    Resample([sx \in 0..(sw - 1) |-> Pattern(sx, sy, c)],
                             x, sw, im.size[1])]
    IN  Resample(hpass, y, sh, im.size[2])

(* ---------------------------------------------------------- numpy arrays *)
NoArray == [shape |-> <<>>, strides |-> <<>>, offset |-> 0, dtype |-> "none",
            base |-> NoImage]

\* a cast that also scales the samples to [0, 1]
Float32Scaled(v) == v \div MaxSample

\* dtype=np.float32 of an integer sample: every integer below 2^24 is a
\* float32, so the value is kept
Float32(v) == v

\* an array that always has a band axis, of length 1 for single-band images
NpArrayWithBandAxis(im, dtype) ==
    LET w == im.size[1]
        h == im.size[2]
        n == Bands(im.mode)
    IN  [shape |-> <<h, w, n>>, strides |-> <<w * n, n, 1>>, offset |-> 0,
         dtype |-> dtype, base |-> im]

\* np.array(img, dtype): a fresh C-contiguous array indexed [y][x][band];
\* single-band images give a two-axis array
NpArray(im, dtype) ==
    LET w == im.size[1]
        h == im.size[2]
        n == Bands(im.mode)
    IN  IF n = 1
        THEN [shape |-> <<h, w>>, strides |-> <<w, 1>>, offset |-> 0,
              dtype |-> dtype, base |-> im]
        ELSE [shape |-> <<h, w, n>>, strides |-> <<w * n, n, 1>>, offset |-> 0,
              dtype |-> dtype, base |-> im]

\* the cell at flat position k of the buffer of np.array(base, float32)
BufferAt(arr, k) ==
    LET n == Bands(arr.base.mode)
        w == arr.base.size[1]
    IN  Float32(GetPixel(arr.base, (k \div n) % w, k \div (n * w), k % n))

RECURSIVE DotSeq(_, _, _)
\* u[1] * v[1] + ... + u[n] * v[n]
DotSeq(u, v, n) == IF n = 0 THEN 0 ELSE u[n] * v[n] + DotSeq(u, v, n - 1)

\* position in the buffer of arr[idx], for a full index idx (0-based, one
\* entry per axis)
FlatIndex(arr, idx) == arr.offset + DotSeq(idx, arr.strides, Len(idx))

\* arr[idx]
Element(arr, idx) == BufferAt(arr, FlatIndex(arr, idx))

\* np.transpose raises ValueError unless axes is a permutation of the axes
TransposeOk(arr, axes) ==
    /\ Len(axes) = Len(arr.shape)
    /\ {axes[i] : i \in 1..Len(axes)} = 0..(Len(arr.shape) - 1)

\* a transposition that reads axes the other way round: axis i of arr becomes
\* axis axes[i] of the result
TransposeInverse(arr, axes) ==
    LET inv == [i \in 1..Len(axes) |-> CHOOSE j \in 1..Len(axes) : axes[j] + 1 = i]
    IN  [arr EXCEPT !.shape = [i \in 1..Len(axes) |-> arr.shape[inv[i]]],
                    !.strides = [i \in 1..Len(axes) |-> arr.strides[inv[i]]]]

\* np.transpose(arr, axes): axis i of the result is axis axes[i] of arr
Transpose(arr, axes) ==
    [arr EXCEPT !.shape = [i \in 1..Len(axes) |-> arr.shape[axes[i] + 1]],
                !.strides = [i \in 1..Len(axes) |-> arr.strides[axes[i] + 1]]]

\* np.expand_dims(arr, axis): a new axis of length 1 at position axis
ExpandDims(arr, axis) ==
    LET n == Len(arr.shape)
        ins(s, v) == SubSeq(s, 1, axis) \o <<v>> \o SubSeq(s, axis + 1, n)
    IN  [arr EXCEPT !.shape = ins(arr.shape, 1), !.strides = ins(arr.strides, 0)]

\* a slice that drops the first channel instead of the last one
SliceAxis1Shifted(arr, start, stop) ==
    LET n == arr.shape[2]
        lo == Min(start + 1, n)
        hi == Max(lo, Min(stop + 1, n))
    IN  [arr EXCEPT !.shape[2] = hi - lo,
                    !.offset = arr.offset + lo * arr.strides[2]]

\* a slice that keeps every channel
SliceAxis1Whole(arr, start, stop) == arr

\* a slice that is not clipped to the axis: always stop - start channels
SliceAxis1Unclipped(arr, start, stop) ==
    [arr EXCEPT !.shape[2] = stop - start,
                !.offset = arr.offset + start * arr.strides[2]]

\* arr[:, start:stop, :, :]: the slice is clipped to the axis, never an error
SliceAxis1(arr, start, stop) ==
    LET n == arr.shape[2]
        lo == Min(start, n)
        hi == Max(lo, Min(stop, n))
    IN  [arr EXCEPT !.shape[2] = hi - lo,
                    !.offset = arr.offset + lo * arr.strides[2]]

(* ----------------------------------------------------------------- text *)
RECURSIVE Digits(_)
\* decimal digits of a natural number
Digits(n) ==
    IF n < 10 THEN SubSeq("0123456789", n + 1, n + 1)
    ELSE Digits(n \div 10) \o SubSeq("0123456789", (n % 10) + 1, (n % 10) + 1)

\* str(d) of a numpy.float32 holding an integral value: "128.0"
Str(d) == Digits(d) \o ".0"

HeaderLine == "std::vector<float> mushroom = {"
FooterLine == "};"

\* a value line without its trailing comma
ValueLineNoComma(d) == "    " \o Str(d)

\* "    " + str(d) + ","
ValueLine(d) == "    " \o Str(d) \o ","

(* ---------------------------------------------------------------- script *)
Init ==
    /\ file \in Files
    /\ pc = "start"
    /\ img = NoImage
    /\ img_data = NoArray
    /\ mushroom = NoArray
    /\ ia = 0 /\ ib = 0 /\ ic = 0
    /\ nLines = 0
    /\ nValues = 0
    /\ firstLine = ""
    /\ lastLines = <<>>
    /\ lastVals = <<>>

\* lines ls are written to standard output
Write(ls) ==
    /\ nLines' = nLines + Len(ls)
    /\ firstLine' = IF nLines = 0 /\ Len(ls) > 0 THEN ls[1] ELSE firstLine
    /\ lastLines' = ls

NoOutput == UNCHANGED <<nLines, nValues, firstLine, lastLines, lastVals>>
NoLoop == UNCHANGED <<ia, ib, ic>>

\* img = Image.open(img_path)
Open ==
    /\ pc = "start"
    /\ IF file.kind = "image"
       THEN /\ img' = Decode(file)
            /\ pc' = "opened"
       ELSE /\ pc' = "aborted"
            /\ UNCHANGED img
    /\ UNCHANGED <<file, img_data, mushroom>>
    /\ NoLoop /\ NoOutput

\* img = img.resize((224, 224), Image.BILINEAR)
DoResize ==
    /\ pc = "opened"
    /\ img' = Resize(img, <<TargetSize, TargetSize>>)
    /\ pc' = "resized"
    /\ UNCHANGED <<file, img_data, mushroom>>
    /\ NoLoop /\ NoOutput

\* img_data = np.array(img, dtype=np.float32)
DoArray ==
    /\ pc = "resized"
    /\ img_data' = NpArray(img, "float32")
    /\ pc' = "array"
    /\ UNCHANGED <<file, img, mushroom>>
    /\ NoLoop /\ NoOutput

\* img_data = np.transpose(img_data, [2, 0, 1])
DoTranspose ==
    /\ pc = "array"
    /\ IF TransposeOk(img_data, <<2, 0, 1>>)
       THEN /\ img_data' = Transpose(img_data, <<2, 0, 1>>)
            /\ pc' = "transposed"
       ELSE /\ pc' = "aborted"
            /\ UNCHANGED img_data
    /\ UNCHANGED <<file, img, mushroom>>
    /\ NoLoop /\ NoOutput

\* img_data = np.expand_dims(img_data, 0)
DoExpandDims ==
    /\ pc = "transposed"
    /\ img_data' = ExpandDims(img_data, 0)
    /\ pc' = "expanded"
    /\ UNCHANGED <<file, img, mushroom>>
    /\ NoLoop /\ NoOutput

\* img_data = img_data[:,0:3,:,:]
DoSlice ==
    /\ pc = "expanded"
    /\ img_data' = SliceAxis1(img_data, 0, SliceStop)
    /\ pc' = "sliced"
    /\ UNCHANGED <<file, img, mushroom>>
    /\ NoLoop /\ NoOutput

\* return img_data; mushroom = preprocess('cheetah.png')
Return ==
    /\ pc = "sliced"
    /\ mushroom' = img_data
    /\ pc' = "returned"
    /\ UNCHANGED <<file, img, img_data>>
    /\ NoLoop /\ NoOutput

\* the opening line printed before preprocess is called
PrintHeaderFirst ==
    /\ pc = "start"
    /\ nLines = 0
    /\ Write(<<HeaderLine>>)
    /\ UNCHANGED <<file, pc, img, img_data, mushroom, nValues, lastVals>>
    /\ NoLoop

\* print "std::vector<float> mushroom = {"
PrintHeader ==
    /\ pc = "returned"
    /\ Write(<<HeaderLine>>)
    /\ pc' = "loop"
    /\ UNCHANGED <<file, img, img_data, mushroom, nValues, lastVals>>
    /\ NoLoop

\* the loops have a row left: a = mushroom[ia], b = a[ib], c = b[ic]
RowLeft ==
    /\ ia < mushroom.shape[1]
    /\ ib < mushroom.shape[2]
    /\ ic < mushroom.shape[3]

\* one iteration of "for c in b": for d in c: print "    " + str(d) + ","
PrintRow ==
    /\ pc = "loop"
    /\ RowLeft
    /\ LET n == mushroom.shape[4]
           row == [j \in 1..n |-> Element(mushroom, <<ia, ib, ic, j - 1>>)]
           lastc == ic + 1 = mushroom.shape[3]
           lastb == ib + 1 = mushroom.shape[2]
       IN  /\ lastVals' = row
           /\ Write([j \in 1..n |-> ValueLine(lastVals'[j])])
           /\ nValues' = nValues + n
           /\ ic' = IF lastc THEN 0 ELSE ic + 1
           /\ ib' = IF lastc THEN (IF lastb THEN 0 ELSE ib + 1) ELSE ib
           /\ ia' = IF lastc /\ lastb THEN ia + 1 ELSE ia
    /\ UNCHANGED <<file, pc, img, img_data, mushroom>>

\* print "};"
PrintFooter ==
    /\ pc = "loop"
    /\ ~RowLeft
    /\ Write(<<FooterLine>>)
    /\ pc' = "done"
    /\ UNCHANGED <<file, img, img_data, mushroom, nValues, lastVals>>
    /\ NoLoop

Next ==
    \/ Open
    \/ DoResize
    \/ DoArray
    \/ DoTranspose
    \/ DoExpandDims
    \/ DoSlice
    \/ Return
    \/ PrintHeader
    \/ PrintRow
    \/ PrintFooter

Spec == Init /\ [][Next]_vars

TypeOK ==
    /\ pc \in {"start", "opened", "resized", "array", "transposed", "expanded",
               "sliced", "returned", "loop", "done", "aborted"}
    /\ nLines \in Nat
    /\ nValues \in Nat
(* ------------------------------------------------------------ properties *)
IsImage == file.kind = "image"
IsRGB == IsImage /\ file.mode \in {"RGB", "RGBA"}

\* preprocess has returned: mushroom holds its result
Returned == pc \in {"returned", "loop", "done"}

\* the latest step printed a row of values
RowPrinted == pc = "loop" /\ nValues > 0

\* number (from 0) of the value line lastLines[j] of a printed row
LineNo(j) == nValues - Len(lastLines) + j - 1

TensorShape == <<1, SliceStop, TargetSize, TargetSize>>
TensorSize == 1 * SliceStop * TargetSize * TargetSize

\* C1: for an RGB or RGBA picture of any width and height the tensor returned
\* by preprocess has shape (1, 3, 224, 224)
C1_Shape == (Returned /\ IsRGB) => mushroom.shape = TensorShape

C1_Witness ==
    /\ Returned /\ file.mode = "RGBA" /\ file.W # file.H
    /\ mushroom.shape = <<1, 3, 224, 224>>

\* l is four spaces, the text of d and a comma
IsValueLine(l, d) ==
    /\ Len(l) = 4 + Len(Str(d)) + 1
    /\ SubSeq(l, 1, 4) = "    "
    /\ SubSeq(l, 5, Len(l) - 1) = Str(d)
    /\ SubSeq(l, Len(l), Len(l)) = ","

\* C2: for an RGB or RGBA picture the output is the opening line, first and
\* once, then 150,528 value lines "    <value>,", then the closing line, last
\* and once; nothing is written before the tensor is returned
C2_OutputOrder ==
    IsRGB =>
        /\ pc \notin {"loop", "done"} => nLines = 0
        /\ pc = "loop" =>
            /\ firstLine = HeaderLine
            /\ nLines = 1 + nValues
            /\ nValues <= TensorSize
            /\ nValues = 0 => lastLines = <<HeaderLine>>
            /\ nValues > 0 =>
                /\ Len(lastLines) = Len(lastVals)
                /\ \A j \in 1..Len(lastLines) : IsValueLine(lastLines[j], lastVals[j])
        /\ pc = "done" =>
            /\ firstLine = HeaderLine
            /\ nValues = 150528
            /\ nLines = 1 + nValues + 1
            /\ lastLines = <<FooterLine>>

C2_Witness ==
    /\ pc = "done" /\ file.mode = "RGB"
    /\ nLines = 150530

\* C3: for an RGB or RGBA picture value line k (from 0) carries the sample of
\* the resized image at band c, row h, column w, where
\* k = c*224*224 + h*224 + w
C3_RowMajor ==
    (RowPrinted /\ IsRGB) =>
        \A j \in 1..Len(lastLines) :
            LET k == LineNo(j)
                c == k \div (TargetSize * TargetSize)
                h == (k \div TargetSize) % TargetSize
                w == k % TargetSize
            IN  lastLines[j] = ValueLine(GetPixel(img, w, h, c))

\* the second row of the second channel has been printed
C3_Witness ==
    /\ RowPrinted /\ file.mode = "RGB" /\ file.W # file.H
    /\ nValues = TargetSize * TargetSize + 2 * TargetSize
    /\ lastLines[1] # lastLines[TargetSize]

\* C4: for an RGBA picture channel i of the tensor is band i of the resized
\* image, i in 0..2, and no cell of band 3 is in the tensor or in a printed row
C4_AlphaDropped ==
    (Returned /\ IsImage /\ file.mode = "RGBA") =>
        /\ \A i \in 0..(mushroom.shape[2] - 1) :
            /\ i <= 2
            /\ FlatIndex(mushroom, <<0, i, 0, 0>>) = i
            /\ FlatIndex(mushroom, <<0, i, TargetSize - 1, TargetSize - 1>>)
                   = (TargetSize * TargetSize - 1) * 4 + i
        /\ RowPrinted =>
            \A j \in 1..Len(lastVals) :
                LET k == LineNo(j)
                    i == k \div (TargetSize * TargetSize)
                    p == k % (TargetSize * TargetSize)
                    cell == FlatIndex(mushroom, <<0, i, p \div TargetSize, p % TargetSize>>)
                IN  /\ cell = p * 4 + i
                    /\ cell % 4 # 3

C4_Witness ==
    /\ RowPrinted /\ file.mode = "RGBA"
    /\ nValues = 3 * TargetSize * TargetSize

\* C5: no normalisation: every element of the tensor is, as a number, the
\* 8-bit sample of the resized image it was taken from
C5_NoNormalisation ==
    RowPrinted =>
        \A j \in 1..Len(lastVals) :
            LET k == LineNo(j)
            IN  /\ lastVals[j] \in 0..MaxSample
                /\ lastVals[j] = GetPixel(img, k % TargetSize,
                                          (k \div TargetSize) % TargetSize,
                                          k \div (TargetSize * TargetSize))

\* the first row of channel 1 has been printed: it starts with the sample 85
\* of band 1 at the first pixel of the picture
C5_Witness ==
    /\ RowPrinted
    /\ nValues = TargetSize * TargetSize + TargetSize
    /\ lastVals[1] = Pattern(0, 0, 1)
    /\ lastVals[1] > 1

\* C6: a failure inside preprocess ends the run, for good and with nothing
\* written: output only starts once the tensor has been returned
C6_NoPartialOutput ==
    /\ pc = "aborted" => (nLines = 0 /\ mushroom = NoArray /\ ~ENABLED Next)
    /\ nLines > 0 => Returned

C6_Witness == pc = "aborted" /\ nLines = 0 /\ file.kind = "missing"

\* C8 as stated: whenever preprocess returns a tensor its channel axis has
\* size 3
C8_AlwaysThreeChannels == Returned => mushroom.shape[2] = 3

\* C8: whenever preprocess returns a tensor for a picture of at least three
\* bands, the channel axis of the tensor has size 3
C8_ThreeChannels ==
    (Returned /\ Bands(file.mode) >= 3) =>
        /\ Len(mushroom.shape) = 4
        /\ mushroom.shape[2] = 3

C8_Witness == pc = "returned" /\ file.mode = "RGBA" /\ mushroom.shape[2] = 3

\* C9: the slice never fails and keeps min(C, 3) channels: the array is left
\* as it is when C <= 3, and a picture of C < 3 bands ends with C*224*224
\* value lines
C9_SilentSlice ==
    /\ [](pc = "done" => nValues = Min(Bands(file.mode), 3) * TargetSize * TargetSize)
    /\ [][pc = "expanded" =>
            /\ pc' = "sliced"
            /\ img_data'.shape[2] = Min(img_data.shape[2], 3)
            /\ img_data.shape[2] <= 3 => img_data' = img_data]_vars

C9_Witness == pc = "done" /\ file.mode = "LA" /\ nValues = 2 * 224 * 224

\* C10: a picture whose array has two axes fails in the transposition: the
\* run stops there, before the slice, with no tensor and nothing written
C10_TwoAxes ==
    (IsImage /\ Bands(file.mode) = 1) =>
        /\ pc \in {"start", "opened", "resized", "array", "aborted"}
        /\ pc = "aborted" => Len(img_data.shape) = 2
        /\ mushroom = NoArray
        /\ nLines = 0

C10_Witness == pc = "aborted" /\ file.mode = "L" /\ img_data.shape = <<224, 224>>
====
